---------------------------- MODULE Spec2Model ----------------------------
(***************************************************************************)
(* BPTreeVisualizer (src/components/BPTreeVisualizer.tsx): the snapshot    *)
(* fetcher fetchTreeData, the search simulator searchInTree, the layout    *)
(* conversion, the statistics, the render and the controls of the panel;   *)
(* and the handler of GET /api/stats (src/unnamed/part_000).               *)
(*                                                                         *)
(* Strings that the code compares or builds (keys, path entries) are       *)
(* sequences: a key is the sequence of its UTF-16 code units, a path entry *)
(* is the sequence of its characters.  A TreeNode is a record with the     *)
(* fields of the JSON object; an optional field that is missing is missing *)
(* from the record's DOMAIN.  A reference to a node of a tree is the       *)
(* sequence of 0-based child indices leading to it from the root.          *)
(***************************************************************************)
EXTENDS Integers, Sequences, FiniteSets, TLC

VARIABLES
    tree,       \* searchInTree: the `node` argument (root of a snapshot)
    key,        \* searchInTree: the `key` argument
    loop        \* searchInTree: locals of the running call, see SearchStart

searchVars == <<tree, key, loop>>

VARIABLES
    phase,            \* "constructed", "mounted" (the mount effect has run)
                      \* or "unmounted"
    clock,            \* Date.now(), in ms
    treeData,         \* useState: the TreeResponse held, or Null
    isLoading,        \* useState
    error,            \* useState: the Error held, or Null
    lastFetchTime,    \* useState
    loadingStartTime, \* useState
    pending,          \* the fetchTreeData calls suspended at `await axios.get`
    abortTimers,      \* armed setTimeout(() => controller.abort(), 15000)
    loadingTimers,    \* armed setTimeout(() => setIsLoading(false), ...),
                      \* by their due times
    sent,             \* number of axios.get('/api/tree') requests issued
    lastEvent,        \* what the last step did (history)
    lastUnforcedSend  \* the time of the last fetchTreeData(false) call
                      \* that issued a request, as a set of at most one
                      \* element (history)

stateVars == <<treeData, isLoading, error, lastFetchTime, loadingStartTime>>

fetchVars ==
    <<phase, clock, stateVars, pending, abortTimers, loadingTimers, sent,
      lastEvent, lastUnforcedSend>>

VARIABLES
    layout,     \* the D3Node tree the render effect last built, or Null
    treeStats,  \* the TreeStats the last render computed, or Null
    showValues, \* useState: the "Show Values" checkbox
    valueTexts  \* the ".value" text elements the render effect last
                \* appended: for each node reference the texts under its
                \* node details, or Null

renderVars == <<layout, treeStats, showValues, valueTexts>>

VARIABLES
    searchKey,      \* useState: the text of the search input
    searchResult,   \* useState: the SearchResult shown, or Null
    isSearching,    \* useState
    searchHistory,  \* useState: SearchResult[]
    queries,        \* the handleSearch calls suspended at `await axios.post`,
                    \* each with its key and its local `result`
    zoomLevel,      \* useState: the scale last reported by a zoom event
    zoomTransform   \* the scale of the zoom transform kept on the svg
                    \* element (its __zoom property)

uiVars ==
    <<searchKey, searchResult, isSearching, searchHistory, queries, zoomLevel,
      zoomTransform>>

VARIABLES
    apiCall,    \* GET /api/stats: the call of the handler suspended at
                \* `await axios.get(apiUrl, ...)`, or Null
    apiAnswers  \* GET /api/stats: the answers the handler has sent

apiVars == <<apiCall, apiAnswers>>

vars == <<searchVars, fetchVars, renderVars, uiVars, apiVars>>

Null == [null |-> TRUE]

-----------------------------------------------------------------------------
(* Strings *)

\* JavaScript's `a < b` on strings: lexicographic on code units, a proper
\* prefix is smaller.
RECURSIVE StrLess(_, _)
StrLess(a, b) ==
    IF b = <<>> THEN FALSE
    ELSE IF a = <<>> THEN TRUE
    ELSE IF Head(a) # Head(b) THEN Head(a) < Head(b)
    ELSE StrLess(Tail(a), Tail(b))

\* Number.prototype.toString of a non-negative integer, as characters.
Digit(d) == <<"0", "1", "2", "3", "4", "5", "6", "7", "8", "9">>[d + 1]

RECURSIVE NumToStr(_)
NumToStr(n) ==
    IF n < 10 THEN <<Digit(n)>>
    ELSE NumToStr(n \div 10) \o <<Digit(n % 10)>>

TypeStr(t) ==
    IF t = "leaf" THEN <<"l", "e", "a", "f">>
    ELSE <<"i", "n", "t", "e", "r", "n", "a", "l">>

\* Bug variant: only the last digit of the level is written.
StepDescriptionOneDigit(node) ==
    <<"L", "e", "v", "e", "l", " ", Digit(node.level % 10), ":", " ">>
        \o TypeStr(node.type) \o <<" ", "n", "o", "d", "e">>

\* `Level ${currentNode.level}: ${currentNode.type} node`
StepDescription(node) ==
    <<"L", "e", "v", "e", "l", " ">> \o NumToStr(node.level) \o <<":", " ">>
        \o TypeStr(node.type) \o <<" ", "n", "o", "d", "e">>

\* Array.prototype.includes on an array of strings.
Includes(arr, x) == \E i \in 1..Len(arr) : arr[i] = x

-----------------------------------------------------------------------------
(* TreeNode *)

IsLeaf(node) == "is_leaf" \in DOMAIN node /\ node.is_leaf

\* `node.children && node.children[i]` for a 0-based index i.
HasChild(node, i) ==
    "children" \in DOMAIN node /\ i >= 0 /\ i < Len(node.children)

Child(node, i) == node.children[i + 1]

\* The node a reference denotes.
RECURSIVE NodeAt(_, _)
NodeAt(root, ref) ==
    IF ref = <<>> THEN root ELSE NodeAt(Child(root, Head(ref)), Tail(ref))

\* The references of the nodes of a tree: every node reached from the root
\* through children arrays.
RECURSIVE NodeRefs(_)
NodeRefs(node) ==
    {<<>>} \cup
    IF HasChild(node, 0)
    THEN UNION {{<<i - 1>> \o r : r \in NodeRefs(node.children[i])} :
                  i \in 1..Len(node.children)}
    ELSE {}

-----------------------------------------------------------------------------
(* searchInTree *)

\* Bug variants of the for loop: `key <= keys[i]` for `key < keys[i]`, and
\* `childIndex = i` for `childIndex = i + 1`.
RECURSIVE ScanKeysNonStrict(_, _, _, _)
ScanKeysNonStrict(keys, k, i, childIndex) ==
    IF i >= Len(keys) THEN childIndex
    ELSE IF StrLess(k, keys[i + 1]) \/ k = keys[i + 1] THEN childIndex
    ELSE ScanKeysNonStrict(keys, k, i + 1, i + 1)

RECURSIVE ScanKeysOffByOne(_, _, _, _)
ScanKeysOffByOne(keys, k, i, childIndex) ==
    IF i >= Len(keys) THEN childIndex
    ELSE IF StrLess(k, keys[i + 1]) THEN childIndex
    ELSE ScanKeysOffByOne(keys, k, i + 1, i)

\* The for loop that picks childIndex: i is the loop index (0-based).
RECURSIVE ScanKeys(_, _, _, _)
ScanKeys(keys, k, i, childIndex) ==
    IF i >= Len(keys) THEN childIndex
    ELSE IF StrLess(k, keys[i + 1]) THEN childIndex
    ELSE ScanKeys(keys, k, i + 1, i + 1)

ChildIndex(keys, k) == ScanKeys(keys, k, 0, 0)

\* The locals on entry: path = [], currentNode = node.
SearchEntry ==
    [pc |-> "while", currentNode |-> <<>>, path |-> <<>>, result |-> Null]

\* Bug variant: the path returned when the chosen child is absent lacks
\* the node the search stopped at.
LoopBodyDropsLastStep(root, k, l) ==
    LET cur    == NodeAt(root, l.currentNode)
        pushed == Append(l.path, StepDescription(cur))
    IN  IF IsLeaf(cur)
        THEN LET found == Includes(cur.keys, k)
             IN  [l EXCEPT !.pc = "return", !.path = pushed,
                           !.result = [found |-> found, path |-> pushed,
                                       node |-> IF found
                                                THEN [ref |-> l.currentNode]
                                                ELSE Null]]
        ELSE LET childIndex == ChildIndex(cur.keys, k)
             IN  IF HasChild(cur, childIndex)
                 THEN [l EXCEPT !.path = pushed,
                                !.currentNode = Append(@, childIndex)]
                 ELSE [l EXCEPT !.pc = "return",
                                !.result = [found |-> FALSE, path |-> l.path,
                                            node |-> Null]]

\* One evaluation of the while body (or the exit of the loop) for the
\* locals l of a call searchInTree(root, k).
LoopBody(root, k, l) ==
    LET cur    == NodeAt(root, l.currentNode)
        pushed == Append(l.path, StepDescription(cur))
    IN  IF IsLeaf(cur)
        THEN LET found == Includes(cur.keys, k)
             IN  [l EXCEPT !.pc = "return", !.path = pushed,
                           !.result = [found |-> found, path |-> pushed,
                                       node |-> IF found
                                                THEN [ref |-> l.currentNode]
                                                ELSE Null]]
        ELSE LET childIndex == ChildIndex(cur.keys, k)
             IN  IF HasChild(cur, childIndex)
                 THEN [l EXCEPT !.path = pushed,
                                !.currentNode = Append(@, childIndex)]
                 ELSE [l EXCEPT !.pc = "return", !.path = pushed,
                                !.result = [found |-> FALSE, path |-> pushed,
                                            node |-> Null]]

\* The locals when the call ends.
RECURSIVE RunToEnd(_, _, _)
RunToEnd(root, k, l) ==
    IF l.pc = "while" THEN RunToEnd(root, k, LoopBody(root, k, l)) ELSE l

RunLoop(root, k, l) == RunToEnd(root, k, l).result

\* The SearchResult of searchInTree(node, key); searchTime is a clock
\* reading that no decision uses and is left out.
searchInTree(node, k) == RunLoop(node, k, SearchEntry)

-----------------------------------------------------------------------------
(* convertToD3Format *)

\* String.prototype.includes: sub occurs in s as a substring.
StrIncludes(s, sub) ==
    \E i \in 0..(Len(s) - Len(sub)) : SubSeq(s, i + 1, i + Len(sub)) = sub

\* `Level ${node.level}`
LevelTag(node) == <<"L", "e", "v", "e", "l", " ">> \o NumToStr(node.level)

\* `${node.type} (Level ${node.level})`
NodeName(node) ==
    TypeStr(node.type) \o <<" ", "(">> \o LevelTag(node) \o <<")">>

\* The default of the nodeId parameter.
RootId == <<"r", "o", "o", "t">>

\* Bug variant: the child's index is left out of its nodeId.
ChildNodeIdNoIndex(nodeId, index) == nodeId \o <<"-">>

\* `${nodeId}-${index}`
ChildNodeId(nodeId, index) == nodeId \o <<"-">> \o NumToStr(index)

\* Bug variant: every node is marked when the search found the key.
IsSearchResultWhenFound(result, ref) ==
    result # Null /\ result.found

\* `searchResult?.node === node` for the node object at ref; result
\* is Null for undefined.  Two node objects of one snapshot are the same
\* object exactly when they are at the same place.
IsSearchResult(result, ref) ==
    /\ result # Null
    /\ result.node # Null
    /\ result.node.ref = ref

\* `searchResult?.path.some(path => path.includes(`Level ${node.level}`))`
\* for a result that is not undefined.
IsInSearchPath(result, node) ==
    \E i \in 1..Len(result.path) :
        StrIncludes(result.path[i], LevelTag(node))

\* The D3Node of the node object at ref.  A property whose value is
\* undefined (keys, values of a node without them; isInSearchPath,
\* searchFound without a searchResult; children of a node without
\* children) is missing from the record.
RECURSIVE convertToD3Format(_, _, _, _, _)
convertToD3Format(node, sKey, result, nodeId, ref) ==
    [name |-> NodeName(node), nodeType |-> node.type, level |-> node.level,
     isSearchResult |-> IsSearchResult(result, ref), nodeId |-> nodeId]
    @@ [f \in DOMAIN node \cap {"keys", "values"} |-> node[f]]
    @@ (IF result = Null THEN [f \in {} |-> f]
        ELSE [isInSearchPath |-> IsInSearchPath(result, node),
              searchFound |-> result.found])
    @@ (IF HasChild(node, 0)
        THEN [children |->
                [i \in 1..Len(node.children) |->
                    convertToD3Format(node.children[i], sKey,
                                      result,
                                      ChildNodeId(nodeId, i - 1),
                                      Append(ref, i - 1))]]
        ELSE [f \in {} |-> f])

-----------------------------------------------------------------------------
(* calculateTreeStats *)

\* Bug variant: the thresholds compared with `<`.
TreeBalanceStrict(total) ==
    IF total < 1 THEN "Perfect"
    ELSE IF total < 3 THEN "Good"
    ELSE IF total < 5 THEN "Fair"
    ELSE "Complex"

TreeBalance(total) ==
    IF total <= 1 THEN "Perfect"
    ELSE IF total <= 3 THEN "Good"
    ELSE IF total <= 5 THEN "Fair"
    ELSE "Complex"

\* countNodes(n); AddChildren is its `for (const child of n.children)`
\* loop.
RECURSIVE countNodes(_), AddChildren(_, _)
countNodes(n) ==
    LET counts == [total |-> 1, leaf |-> IF IsLeaf(n) THEN 1 ELSE 0,
                   keys |-> Len(n.keys)]
    IN  IF "children" \in DOMAIN n THEN AddChildren(n.children, counts)
        ELSE counts

AddChildren(children, counts) ==
    IF children = <<>> THEN counts
    ELSE LET childStats == countNodes(Head(children))
         IN  AddChildren(Tail(children),
                         [total |-> counts.total + childStats.total,
                          leaf |-> counts.leaf + childStats.leaf,
                          keys |-> counts.keys + childStats.keys])

\* `treeData?.depth || 1`
StatsDepth ==
    IF treeData # Null /\ "depth" \in DOMAIN treeData /\ treeData.depth # 0
    THEN treeData.depth ELSE 1

\* The TreeStats of calculateTreeStats(node).  averageKeysPerNode, the
\* quotient keys / total formatted by toFixed(1), is a float that nothing
\* else reads and is left out.
calculateTreeStats(node) ==
    LET stats == countNodes(node)
    IN  [depth |-> StatsDepth, totalNodes |-> stats.total,
         leafNodes |-> stats.leaf, totalKeys |-> stats.keys,
         treeBalance |-> TreeBalance(stats.total)]

-----------------------------------------------------------------------------
(* getAllKeysSorted *)

\* Array.prototype.sort without a comparator, on an array of strings:
\* ascending by code units; InsertSorted puts x after the elements that
\* are not greater.
RECURSIVE InsertSorted(_, _)
InsertSorted(arr, x) ==
    IF arr = <<>> THEN <<x>>
    ELSE IF StrLess(x, Head(arr)) THEN <<x>> \o arr
    ELSE <<Head(arr)>> \o InsertSorted(Tail(arr), x)

RECURSIVE Sorted(_)
Sorted(arr) ==
    IF arr = <<>> THEN <<>>
    ELSE InsertSorted(Sorted(SubSeq(arr, 1, Len(arr) - 1)), arr[Len(arr)])

\* Bug variant: `const keys = node.keys`, the keys of the children are
\* pushed to the keys array of the node and sorted there.
NodeAfterCollectingInPlace(node, collected) ==
    [node EXCEPT !.keys = Sorted(@ \o collected)]

\* An internal node after `const keys: string[] = []; ... keys.push(...);
\* return keys.sort()`: the keys of the children are collected and sorted
\* in an array of the call, no field of the node is written.
NodeAfterCollecting(node, collected) == node

\* getAllKeysSorted(node): the array it returns (keys) and the node
\* object as the call leaves it (node).  A leaf sorts a copy of its keys,
\* `[...node.keys].sort()`.
RECURSIVE getAllKeysSorted(_), CollectKeys(_, _)
getAllKeysSorted(node) ==
    IF IsLeaf(node) THEN [keys |-> Sorted(node.keys), node |-> node]
    ELSE IF "children" \in DOMAIN node
    THEN LET done == CollectKeys(node.children, [keys |-> <<>>, nodes |-> <<>>])
         IN  [keys |-> Sorted(done.keys),
              node |-> NodeAfterCollecting([node EXCEPT !.children = done.nodes],
                                           done.keys)]
    ELSE [keys |-> <<>>, node |-> NodeAfterCollecting(node, <<>>)]

\* `for (const child of node.children) keys.push(...getAllKeysSorted(child))`
CollectKeys(children, acc) ==
    IF children = <<>> THEN acc
    ELSE LET sub == getAllKeysSorted(Head(children))
         IN  CollectKeys(Tail(children),
                         [keys |-> acc.keys \o sub.keys,
                          nodes |-> Append(acc.nodes, sub.node)])

-----------------------------------------------------------------------------
(* The values of the render effect *)

\* `d.length > 8 ? d.substring(0, 8) + "..." : d`; 46 is the code unit of
\* the full stop.
ValueText(d) == IF Len(d) > 8 THEN SubSeq(d, 1, 8) \o <<46, 46, 46>> ELSE d

\* `showValues && treeData.root?.values`
ValuesAppended(show, root) == show /\ "values" \in DOMAIN root

\* The texts of the ".value" elements under the node details of D3Node d:
\* `.data(d => d.data.values || [])`, one text per value.
ValueTextsOf(d) ==
    IF "values" \in DOMAIN d
    THEN [i \in 1..Len(d.values) |-> ValueText(d.values[i])]
    ELSE <<>>

-----------------------------------------------------------------------------
(* Snapshot trees the search is run on *)

MaxDepth == 2       \* levels below the root in a generated tree
MaxSeparators == 2  \* separator keys in a generated internal node

\* Stored keys: "1" < "12" < "2" in code-unit order.
KeyUniverse == {<<1>>, <<1, 2>>, <<2>>}

\* Search keys: the stored keys, the empty string, and "11", "3", which
\* no node holds.
SearchKeys == KeyUniverse \cup {<<>>, <<1, 1>>, <<3>>}

MinKey(S) == CHOOSE k \in S : \A m \in S \ {k} : StrLess(k, m)

RECURSIVE SortKeys(_)
SortKeys(S) ==
    IF S = {} THEN <<>> ELSE <<MinKey(S)>> \o SortKeys(S \ {MinKey(S)})

Leaf(keys, lvl) ==
    [type |-> "leaf", keys |-> keys, values |-> keys, is_leaf |-> TRUE,
     level |-> lvl]

Internal(keys, children, lvl) ==
    [type |-> "internal", keys |-> keys, children |-> children,
     is_leaf |-> FALSE, level |-> lvl]

\* The sequences c with c[i] \in sets[i].
RECURSIVE Product(_)
Product(sets) ==
    IF sets = <<>> THEN {<<>>}
    ELSE {<<h>> \o t : h \in Head(sets), t \in Product(Tail(sets))}

\* The keys of R that child i (1-based) of separators seps may hold:
\* seps[i-1] <= k < seps[i].
ChildRange(R, seps, i) ==
    {k \in R : /\ (i > 1 => ~StrLess(k, seps[i - 1]))
               /\ (i <= Len(seps) => StrLess(k, seps[i]))}

\* The trees of at most d levels below a root at level lvl that obey the
\* data model and store only keys of R; with full, every leaf stores all
\* the keys its place allows.
RECURSIVE DataModelTrees(_, _, _, _)
DataModelTrees(R, lvl, d, full) ==
    {Leaf(SortKeys(S), lvl) : S \in IF full THEN {R} ELSE SUBSET R}
    \cup
    IF d = 0 THEN {}
    ELSE UNION {
           {Internal(SortKeys(S), c, lvl) :
               c \in Product([i \in 1..(Cardinality(S) + 1) |->
                        DataModelTrees(ChildRange(R, SortKeys(S), i),
                                       lvl + 1, d - 1, full)])} :
           S \in {T \in SUBSET R :
                    Cardinality(T) >= 1 /\ Cardinality(T) <= MaxSeparators}}

\* Ill-formed variants of an internal node: the children field missing,
\* the last child missing, the children in reverse order, the separators
\* in reverse order, a level that is not the distance from the root.
LevelShift == 10

WithoutField(node, f) == [g \in DOMAIN node \ {f} |-> node[g]]

Reverse(s) == [i \in 1..Len(s) |-> s[Len(s) + 1 - i]]

IllFormedVariants(node) ==
    IF IsLeaf(node) THEN {}
    ELSE {WithoutField(node, "children"),
          [node EXCEPT !.children = SubSeq(@, 1, Len(@) - 1)],
          [node EXCEPT !.children = Reverse(@)],
          [node EXCEPT !.keys = Reverse(@)],
          [node EXCEPT !.level = @ + LevelShift]}

\* The trees with one ill-formed node, at the root or below it.
RECURSIVE IllFormedTrees(_)
IllFormedTrees(node) ==
    IllFormedVariants(node)
    \cup
    IF HasChild(node, 0)
    THEN UNION {{[node EXCEPT !.children[i] = bad] :
                    bad \in IllFormedTrees(node.children[i])} :
                i \in 1..Len(node.children)}
    ELSE {}

WellFormedTrees == DataModelTrees(KeyUniverse, 0, MaxDepth, FALSE)

Trees ==
    WellFormedTrees
    \cup UNION {IllFormedTrees(t) :
                  t \in DataModelTrees(KeyUniverse, 0, MaxDepth, TRUE)}

-----------------------------------------------------------------------------
(* The data model of a snapshot (spec.md, section 3) *)

StrictlyIncreasing(keys) ==
    \A i \in 1..(Len(keys) - 1) : StrLess(keys[i], keys[i + 1])

\* The keys stored in the leaves of the subtree of node.
RECURSIVE LeafKeys(_)
LeafKeys(node) ==
    IF IsLeaf(node) THEN {node.keys[i] : i \in 1..Len(node.keys)}
    ELSE IF "children" \in DOMAIN node
         THEN UNION {LeafKeys(node.children[i]) : i \in 1..Len(node.children)}
         ELSE {}

RECURSIVE WellFormed(_)
WellFormed(node) ==
    /\ node.is_leaf <=> node.type = "leaf"
    /\ StrictlyIncreasing(node.keys)
    /\ IF node.is_leaf THEN "children" \notin DOMAIN node
       ELSE /\ "children" \in DOMAIN node
            /\ Len(node.children) = Len(node.keys) + 1
            /\ \A i \in 1..Len(node.children) :
                  /\ WellFormed(node.children[i])
                  /\ LeafKeys(node.children[i])
                        \subseteq ChildRange(LeafKeys(node.children[i]),
                                             node.keys, i)

-----------------------------------------------------------------------------
(* fetchTreeData: constants, responses and errors *)

MinFetchInterval == 10000   \* `now - lastFetchTime < 10000`
DebounceInterval == 30000   \* `now - lastFetchTime < 30000`
RequestTimeout == 15000     \* setTimeout(..., 15000) and `timeout: 15000`
MinLoadingTime == 1000      \* minLoadingTime

Epoch == 100000   \* Date.now() when the component is constructed
TickMs == 5000    \* the clock is read every TickMs; a timer fires at the
                  \* first reading at or after its due time
MaxTicks == 3     \* the clock stops MaxTicks steps after Epoch
MaxRequests == 3  \* requests issued in one run

\* Bodies of a 2xx answer of GET /api/tree (response.data).
SnapshotA ==
    [success |-> TRUE, message |-> "ok", root |-> Leaf(<<<<1>>>>, 0),
     depth |-> 1, node_count |-> 1]

SnapshotB ==
    [success |-> TRUE, message |-> "ok",
     root |-> Internal(<<<<2>>>>, <<Leaf(<<<<1>>>>, 1), Leaf(<<<<2>>>>, 1)>>, 0),
     depth |-> 2, node_count |-> 3]

\* success = true with a root that is no TreeNode (its keys are missing).
IllFormedRootBody ==
    [success |-> TRUE, message |-> "ok",
     root |-> [type |-> "leaf", is_leaf |-> TRUE, level |-> 0],
     depth |-> 1, node_count |-> 1]

\* success = false.
FailureBody == [success |-> FALSE, message |-> "Tree is unavailable"]

Bodies == {SnapshotA, SnapshotB, IllFormedRootBody, FailureBody}

\* What axios.get rejects with.  A request cancelled through its signal
\* rejects with CanceledError, one that outlives `timeout` with an
\* AxiosError of code ECONNABORTED; axios produces no error named
\* AbortError.
Canceled ==
    [name |-> "CanceledError", code |-> "ERR_CANCELED", message |-> "canceled"]

TimeoutExceeded ==
    [name |-> "AxiosError", code |-> "ECONNABORTED",
     message |-> "timeout of 15000ms exceeded"]

ConnectionReset ==
    [name |-> "AxiosError", code |-> "ECONNRESET", message |-> "read ECONNRESET"]

ConnectionRefused ==
    [name |-> "AxiosError", code |-> "ECONNREFUSED",
     message |-> "connect ECONNREFUSED"]

NetworkDown ==
    [name |-> "AxiosError", code |-> "ERR_NETWORK", message |-> "Network Error"]

\* Rejections before the deadline, and at the deadline (the abort timer
\* and the request's own timeout are both due then; either may come first).
TransportErrors == {ConnectionReset, ConnectionRefused, NetworkDown}

DeadlineErrors == {Canceled, TimeoutExceeded}

TimedOutMessage == "Request timed out. Tree data may be too large."

\* The Error the catch block stores for a rejection e.
CaughtError(e) ==
    IF e.name = "AbortError"
    THEN [message |-> TimedOutMessage]
    ELSE IF e.code = "ECONNRESET"
    THEN [message |->
            "Connection reset. The tree data is too large. Try refreshing."]
    ELSE IF e.code = "ECONNREFUSED"
    THEN [message |->
            "Backend server is not running. Please start the C++ backend."]
    ELSE [message |-> "Network error: " \o e.message]

\* new Error(response.data.message || 'Failed to fetch tree data')
UnsuccessfulError(body) ==
    [message |-> IF body.message # "" THEN body.message
                 ELSE "Failed to fetch tree data"]

\* Which of the three panels the component renders.
View ==
    IF error # Null THEN "error"
    ELSE IF treeData = Null \/ ~treeData.success THEN "empty"
    ELSE "tree"

-----------------------------------------------------------------------------
(* fetchTreeData: the state after construction *)

Constructed ==
    /\ phase = "constructed"
    /\ clock = Epoch
    /\ treeData = Null
    /\ isLoading = TRUE
    /\ error = Null
    /\ lastFetchTime = 0
    /\ loadingStartTime = 0
    /\ pending = {}
    /\ abortTimers = {}
    /\ loadingTimers = {}
    /\ sent = 0
    /\ lastEvent = [op |-> "construct"]
    /\ lastUnforcedSend = {}

\* Zoom scales are in hundredths: d3.zoomIdentity has k = 1.
IdentityScale == 100   \* useState(1), setZoomLevel(1), d3.zoomIdentity
MinScale == 30         \* scaleExtent([0.3, 3])
MaxScale == 300        \* scaleExtent([0.3, 3])
ZoomInScale == 150     \* d3.zoomIdentity.scale(1.5)
ZoomOutScale == 70     \* d3.zoomIdentity.scale(0.7)

\* The search and view state after construction; nothing is rendered yet.
ConstructedView ==
    /\ layout = Null
    /\ treeStats = Null
    /\ showValues = FALSE
    /\ valueTexts = Null
    /\ apiCall = Null
    /\ apiAnswers = <<>>
    /\ searchKey = <<>>
    /\ searchResult = Null
    /\ isSearching = FALSE
    /\ searchHistory = <<>>
    /\ queries = {}
    /\ zoomLevel = IdentityScale
    /\ zoomTransform = IdentityScale

-----------------------------------------------------------------------------
(* fetchTreeData *)

\* Bug variant of the early returns: the loading check without `!force`.
SkipReasonLoadingBlocksForce(force, now) ==
    IF ~force /\ now - lastFetchTime < MinFetchInterval THEN "rate limiting"
    ELSE IF ~force /\ now - lastFetchTime < DebounceInterval THEN "debounce"
    ELSE IF isLoading THEN "loading state"
    ELSE "none"

\* The three early returns; "none" when the call goes on to the request.
SkipReason(force, now) ==
    IF ~force /\ now - lastFetchTime < MinFetchInterval THEN "rate limiting"
    ELSE IF ~force /\ now - lastFetchTime < DebounceInterval THEN "debounce"
    ELSE IF isLoading /\ ~force THEN "loading state"
    ELSE "none"

\* fetchTreeData(force) up to `await axios.get(...)`.  The call keeps the
\* `now` it read and the loadingStartTime of the render it was created in.
\* button: which control made the call ("mount", "try again", "refresh",
\* "none"), kept for the history only.
FetchTreeData(force, button) ==
    LET now    == clock
        reason == SkipReason(force, now)
        id     == sent + 1
    IN  /\ lastEvent' = [op |-> "fetchTreeData", force |-> force, at |-> now,
                         issued |-> reason = "none", skipped |-> reason,
                         id |-> id, button |-> button]
        /\ IF reason # "none"
           THEN UNCHANGED <<stateVars, pending, abortTimers, sent,
                            lastUnforcedSend>>
           ELSE /\ isLoading' = TRUE
                /\ loadingStartTime' = now
                /\ error' = Null
                /\ abortTimers' =
                      abortTimers \cup {[id |-> id, due |-> now + RequestTimeout]}
                /\ pending' =
                      pending \cup {[id |-> id, now |-> now, button |-> button,
                                     loadingStartTime |-> loadingStartTime]}
                /\ sent' = id
                /\ lastUnforcedSend' =
                      IF force THEN lastUnforcedSend ELSE {now}
                /\ UNCHANGED <<treeData, lastFetchTime>>

\* A state setter called after the component is unmounted changes nothing.
Mounted == phase = "mounted"

\* isLoading after the `finally` block of call c has run at time `now`.
LoadingAfterFinally(c, now) ==
    IF now - c.loadingStartTime < MinLoadingTime THEN isLoading ELSE FALSE

\* The timers armed after the `finally` block of call c has run at `now`.
LoadingTimersAfterFinally(c, now) ==
    IF now - c.loadingStartTime < MinLoadingTime
    THEN loadingTimers
            \cup {now + (MinLoadingTime - (now - c.loadingStartTime))}
    ELSE loadingTimers

Finally(c) ==
    /\ isLoading' = IF Mounted THEN LoadingAfterFinally(c, clock) ELSE isLoading
    /\ loadingTimers' = LoadingTimersAfterFinally(c, clock)

\* Bug variant: setTreeData(response.data) without the test of success.
TreeDataAfterUnchecked(body) == body

\* treeData after `if (response.data.success) setTreeData(response.data)`.
TreeDataAfter(body) == IF body.success THEN body ELSE treeData

\* error after the if/else on response.data.success.
ErrorAfter(body) == IF body.success THEN error ELSE UnsuccessfulError(body)

\* axios.get resolves with a 2xx answer before the deadline.
Resolve(c, body) ==
    /\ c \in pending
    /\ clock - c.now < RequestTimeout
    /\ pending' = pending \ {c}
    /\ abortTimers' = {t \in abortTimers : t.id # c.id}
    /\ treeData' = IF Mounted THEN TreeDataAfter(body) ELSE treeData
    /\ lastFetchTime' =
          IF Mounted /\ body.success THEN c.now ELSE lastFetchTime
    /\ error' = IF Mounted THEN ErrorAfter(body) ELSE error
    /\ Finally(c)
    /\ lastEvent' = [op |-> "resolve", call |-> c, body |-> body]
    /\ UNCHANGED <<phase, clock, loadingStartTime, sent, lastUnforcedSend,
                   searchVars, renderVars, apiVars, uiVars>>

\* The catch block for rejection e of call c.
Catch(c, e, how) ==
    /\ pending' = pending \ {c}
    /\ error' = IF Mounted THEN CaughtError(e) ELSE error
    /\ Finally(c)
    /\ lastEvent' = [op |-> how, call |-> c, rejection |-> e]
    /\ UNCHANGED <<phase, clock, treeData, lastFetchTime, loadingStartTime,
                   sent, lastUnforcedSend, searchVars,
                   renderVars, apiVars, uiVars>>

\* axios.get rejects before the deadline; the abort timer stays armed.
Reject(c, e) ==
    /\ c \in pending
    /\ clock - c.now < RequestTimeout
    /\ Catch(c, e, "reject")
    /\ UNCHANGED abortTimers

\* 15 s after the call: the abort timer fires and cancels the request, or
\* the request's own timeout comes first and the abort timer stays armed.
Deadline(c, e) ==
    /\ c \in pending
    /\ clock - c.now >= RequestTimeout
    /\ Catch(c, e, "deadline")
    /\ abortTimers' = IF e = Canceled THEN {t \in abortTimers : t.id # c.id}
                      ELSE abortTimers

\* The abort timer of a call that has already ended: abort() of a settled
\* request does nothing.
AbortTimerFires(t) ==
    /\ t \in abortTimers
    /\ t.due <= clock
    /\ \A c \in pending : c.id # t.id
    /\ abortTimers' = abortTimers \ {t}
    /\ lastEvent' = [op |-> "abort timer", id |-> t.id]
    /\ UNCHANGED <<phase, clock, stateVars, pending, loadingTimers, sent,
                   lastUnforcedSend, searchVars, renderVars, apiVars, uiVars>>

\* setTimeout(() => setIsLoading(false), minLoadingTime - elapsed) fires.
LoadingTimerFires(due) ==
    /\ due \in loadingTimers
    /\ due <= clock
    /\ loadingTimers' = loadingTimers \ {due}
    /\ isLoading' = IF Mounted THEN FALSE ELSE isLoading
    /\ lastEvent' = [op |-> "loading timer", due |-> due]
    /\ UNCHANGED <<phase, clock, treeData, error, lastFetchTime,
                   loadingStartTime, pending, abortTimers, sent,
                   lastUnforcedSend, searchVars, renderVars, apiVars, uiVars>>

\* useEffect(() => { fetchTreeData(true) }, [])
Mount ==
    /\ phase = "constructed"
    /\ phase' = "mounted"
    /\ FetchTreeData(TRUE, "mount")
    /\ UNCHANGED <<clock, loadingTimers, searchVars,
                   renderVars, apiVars, uiVars>>

\* "Try Again" of the error panel: handleRefresh.
ClickTryAgain ==
    /\ Mounted
    /\ View = "error"
    /\ sent < MaxRequests
    /\ FetchTreeData(TRUE, "try again")
    /\ UNCHANGED <<phase, clock, loadingTimers, searchVars,
                   renderVars, apiVars, uiVars>>

\* "Refresh" of the empty panel, and the two refresh buttons of the tree
\* panel, which are disabled while isLoading.
ClickRefresh ==
    /\ Mounted
    /\ View = "empty" \/ (View = "tree" /\ ~isLoading)
    /\ sent < MaxRequests
    /\ FetchTreeData(TRUE, "refresh")
    /\ UNCHANGED <<phase, clock, loadingTimers, searchVars,
                   renderVars, apiVars, uiVars>>

\* fetchTreeData() with the default force = false.
FetchUnforced ==
    /\ Mounted
    /\ sent < MaxRequests
    /\ FetchTreeData(FALSE, "none")
    /\ UNCHANGED <<phase, clock, loadingTimers, searchVars,
                   renderVars, apiVars, uiVars>>

\* The component is unmounted; the mount effect returns no cleanup.
Unmount ==
    /\ Mounted
    /\ phase' = "unmounted"
    /\ lastEvent' = [op |-> "unmount"]
    /\ UNCHANGED <<clock, stateVars, pending, abortTimers, loadingTimers, sent,
                   lastUnforcedSend, searchVars, renderVars, apiVars, uiVars>>

\* Time passes, unless a timer is due.
Tick ==
    /\ clock < Epoch + MaxTicks * TickMs
    /\ \A c \in pending : clock - c.now < RequestTimeout
    /\ \A t \in abortTimers : t.due > clock
    /\ \A due \in loadingTimers : due > clock
    /\ clock' = clock + TickMs
    /\ lastEvent' = [op |-> "tick"]
    /\ UNCHANGED <<phase, stateVars, pending, abortTimers, loadingTimers, sent,
                   lastUnforcedSend, searchVars, renderVars, apiVars, uiVars>>

FetchInit ==
    /\ Constructed
    /\ ConstructedView
    /\ tree = Leaf(<<>>, 0)
    /\ key = <<>>
    /\ loop = SearchEntry

FetchNext ==
    \/ Mount
    \/ ClickTryAgain
    \/ ClickRefresh
    \/ FetchUnforced
    \/ \E c \in pending, body \in Bodies : Resolve(c, body)
    \/ \E c \in pending, e \in TransportErrors : Reject(c, e)
    \/ \E c \in pending, e \in DeadlineErrors : Deadline(c, e)
    \/ \E t \in abortTimers : AbortTimerFires(t)
    \/ \E due \in loadingTimers : LoadingTimerFires(due)
    \/ Tick

\* The component stays mounted.
FetchSpec == FetchInit /\ [][FetchNext]_vars

TeardownNext ==
    \/ FetchNext
    \/ Unmount

\* The component may be unmounted at any time after the mount effect.
TeardownSpec == FetchInit /\ [][TeardownNext]_vars

-----------------------------------------------------------------------------
(* SearchSpec: searchInTree run, one loop iteration per step, on every     *)
(* tree of Trees with every key of SearchKeys                              *)

SearchInit ==
    /\ tree \in Trees
    /\ key \in SearchKeys
    /\ loop = SearchEntry
    /\ Constructed
    /\ ConstructedView

\* One iteration of `while (currentNode)`.
SearchIterate ==
    /\ loop.pc = "while"
    /\ loop' = LoopBody(tree, key, loop)
    /\ UNCHANGED <<tree, key, fetchVars, renderVars, apiVars, uiVars>>

\* searchInTree is called again on the same snapshot with another key.
SearchCall(k) ==
    /\ loop.pc = "return"
    /\ key' = k
    /\ loop' = SearchEntry
    /\ UNCHANGED <<tree, fetchVars, renderVars, apiVars, uiVars>>

SearchNext ==
    \/ SearchIterate
    \/ \E k \in SearchKeys : SearchCall(k)

SearchSpec == SearchInit /\ [][SearchNext]_vars

-----------------------------------------------------------------------------
(* RenderSpec: the tree panel rendered for every tree of Trees, before a   *)
(* search and after a search with every key of SearchKeys                  *)

RenderInit ==
    /\ tree \in Trees
    /\ key = <<>>
    /\ loop = SearchEntry
    /\ Constructed
    /\ ConstructedView

\* searchInTree(tree, k) from its call to its end, called from the search
\* controls of the rendered panel; what was rendered before the call is
\* discarded.
SearchRun(k) ==
    /\ treeStats # Null
    /\ key' = k
    /\ loop' = RunToEnd(tree, k, SearchEntry)
    /\ layout' = Null
    /\ treeStats' = Null
    /\ valueTexts' = Null
    /\ UNCHANGED <<tree, showValues, fetchVars, uiVars, apiVars>>

\* A render of the tree panel for the snapshot and the result of the call,
\* if it has returned one: the render computes the statistics and its
\* effect builds the layout.
Render ==
    /\ loop.pc # "while" \/ loop = SearchEntry
    /\ treeStats' = calculateTreeStats(tree)
    /\ tree' = getAllKeysSorted(tree).node
    /\ layout' =
          convertToD3Format(tree', key,
                            IF loop.pc = "return" THEN loop.result ELSE Null,
                            RootId, <<>>)
    /\ valueTexts' =
          [r \in NodeRefs(layout') |->
              IF ValuesAppended(showValues, tree')
              THEN ValueTextsOf(NodeAt(layout', r)) ELSE <<>>]
    /\ UNCHANGED <<key, loop, showValues, fetchVars, uiVars, apiVars>>

\* onChange of the "Show Values" checkbox: setShowValues(e.target.checked);
\* what was rendered before it is discarded.
ToggleShowValues ==
    /\ treeStats # Null
    /\ showValues' = ~showValues
    /\ layout' = Null
    /\ treeStats' = Null
    /\ valueTexts' = Null
    /\ UNCHANGED <<searchVars, fetchVars, uiVars, apiVars>>

RenderNext ==
    \/ \E k \in SearchKeys : SearchRun(k)
    \/ Render

RenderSpec == RenderInit /\ [][RenderNext]_vars

-----------------------------------------------------------------------------
(* Claims about searchInTree *)

\* C1: on a snapshot that obeys the data model, a finished search reports
\* found exactly when some leaf of the tree stores the key, and then the
\* matched node is a leaf whose keys contain the key.
SearchFindsStoredKeys ==
    (loop.pc = "return" /\ WellFormed(tree)) =>
        /\ loop.result.found <=> key \in LeafKeys(tree)
        /\ loop.result.found =>
              /\ loop.result.node # Null
              /\ IsLeaf(NodeAt(tree, loop.result.node.ref))
              /\ Includes(NodeAt(tree, loop.result.node.ref).keys, key)

\* A search on a three-level well-formed tree that found a key equal to a
\* separator of the root.
SearchFoundSeparatorKey ==
    /\ loop.pc = "return"
    /\ WellFormed(tree)
    /\ loop.result.found
    /\ Len(loop.result.node.ref) = 2
    /\ Includes(tree.keys, key)

\* The 0-based position of the first key strictly greater than k, or
\* Len(keys) when there is none.
FirstGreater(keys, k) ==
    LET greater == {j \in 1..Len(keys) : StrLess(k, keys[j])}
    IN  IF greater = {} THEN Len(keys)
        ELSE (CHOOSE j \in greater : \A m \in greater : j <= m) - 1

\* C2: an iteration at an internal node moves to the child at the position
\* of the first key strictly greater than the search key (the last child
\* when there is none) and ends the search when that child is missing; a
\* key equal to separator j is never sent to child j, and it is sent to
\* child j + 1 when the separators are strictly increasing.
DescentRule ==
    [][(loop.pc = "while" /\ ~IsLeaf(NodeAt(tree, loop.currentNode))) =>
        LET cur == NodeAt(tree, loop.currentNode)
            i   == FirstGreater(cur.keys, key)
        IN  /\ IF HasChild(cur, i)
               THEN /\ loop'.pc = "while"
                    /\ loop'.currentNode = Append(loop.currentNode, i)
               ELSE loop'.pc = "return"
            /\ \A j \in 0..(Len(cur.keys) - 1) :
                  cur.keys[j + 1] = key =>
                     /\ i # j
                     /\ StrictlyIncreasing(cur.keys) => i = j + 1
       ]_vars

\* The search has moved from an internal node below the root to its child
\* j + 1 with a key equal to separator j of that node.
DescendedOnEqualSeparator ==
    /\ Len(loop.currentNode) = 2
    /\ LET parent == NodeAt(tree, SubSeq(loop.currentNode, 1, 1))
           j      == loop.currentNode[2] - 1
       IN  /\ j >= 0
           /\ j < Len(parent.keys)
           /\ parent.keys[j + 1] = key

-----------------------------------------------------------------------------
(* Claims about fetchTreeData *)

Settled == {"resolve", "reject", "deadline"}

\* C3: an unforced call made less than 10 s after an unforced call that
\* issued a request issues no request and leaves the error state as it
\* is, whether the earlier request succeeded, failed or is still pending.
UnforcedCallInWindowSkipped ==
    [][(/\ lastEvent'.op = "fetchTreeData"
        /\ ~lastEvent'.force
        /\ \E t \in lastUnforcedSend : lastEvent'.at - t < MinFetchInterval)
       => (sent' = sent /\ error' = error)]_vars

\* C4: a forced call issues a request, whatever the time since the last
\* fetch and whether or not another fetch is loading.
ForcedCallAlwaysSends ==
    (lastEvent.op = "fetchTreeData" /\ lastEvent.force) =>
        /\ sent = lastEvent.id
        /\ \E c \in pending : c.id = lastEvent.id /\ c.now = lastEvent.at
        /\ \E t \in abortTimers :
              t.id = lastEvent.id /\ t.due = lastEvent.at + RequestTimeout

\* A forced call made while another request was pending, less than 10 s
\* after the last successful fetch.
ForcedCallWhilePendingInWindow ==
    /\ lastEvent.op = "fetchTreeData"
    /\ lastEvent.force
    /\ Cardinality(pending) >= 2
    /\ lastFetchTime > 0
    /\ lastEvent.at - lastFetchTime < MinFetchInterval

\* C5: isLoading stays set during the first second after the latest
\* request was issued, and a request that ends later than that, with no
\* other request pending, ends with isLoading cleared.
LoadingHeldForMinimum ==
    /\ (Mounted /\ sent > 0 /\ clock - loadingStartTime < MinLoadingTime)
          => isLoading
    /\ (/\ Mounted
        /\ lastEvent.op \in Settled
        /\ clock - lastEvent.call.now >= MinLoadingTime
        /\ pending = {})
          => ~isLoading

\* C6: a step changes treeData only if it is the arrival of a response with
\* success = true, and that step makes treeData the body of the response.
SnapshotChangesOnlyOnSuccess ==
    [][/\ treeData' # treeData =>
            /\ lastEvent'.op = "resolve"
            /\ lastEvent'.body.success
       /\ (/\ lastEvent'.op = "resolve"
           /\ pending' # pending
           /\ lastEvent'.body.success
           /\ Mounted)
            => treeData' = lastEvent'.body
      ]_vars

\* The response of a later request has replaced snapshot A by snapshot B.
SnapshotReplaced ==
    /\ lastEvent.op = "resolve"
    /\ lastEvent.call.id >= 2
    /\ lastEvent.body = SnapshotB
    /\ treeData = SnapshotB
    /\ lastFetchTime = lastEvent.call.now

\* C7: a request that is still pending 15 s after it was issued ends with
\* the 'Request timed out' error.
DeadlineEndsInTimedOut ==
    (Mounted /\ lastEvent.op = "deadline") =>
        /\ lastEvent.call \notin pending
        /\ error # Null
        /\ error.message = TimedOutMessage

\* The TreeNode shape of the GET /tree contract (spec.md, section 6).
RECURSIVE IsTreeNode(_)
IsTreeNode(node) ==
    /\ {"type", "keys", "is_leaf", "level"} \subseteq DOMAIN node
    /\ node.type \in {"leaf", "internal"}
    /\ "children" \in DOMAIN node =>
          \A i \in 1..Len(node.children) : IsTreeNode(node.children[i])

HasResponseShape(body) ==
    /\ {"success", "message", "root"} \subseteq DOMAIN body
    /\ body.root = Null \/ IsTreeNode(body.root)

\* C8: a response with success = false, or without the response shape,
\* ends with the error set and is not installed as treeData.
MalformedResponseRejected ==
    (/\ Mounted
     /\ lastEvent.op = "resolve"
     /\ ~lastEvent.body.success \/ ~HasResponseShape(lastEvent.body))
        => (error # Null /\ treeData # lastEvent.body)

\* C9: a failed attempt ends in the error panel, which offers "Try Again";
\* an attempt started with "Try Again" that succeeds ends in the tree
\* panel with the error cleared and the fetched snapshot held.
FailuresRecoverable ==
    /\ (/\ Mounted
        /\ \/ lastEvent.op \in {"reject", "deadline"}
           \/ lastEvent.op = "resolve" /\ ~lastEvent.body.success)
          => (error # Null /\ View = "error")
    /\ (/\ Mounted
        /\ lastEvent.op = "resolve"
        /\ lastEvent.body.success
        /\ lastEvent.call.button = "try again")
          => (error = Null /\ treeData = lastEvent.body /\ View = "tree")

\* C10: after the component is unmounted no request of it is pending and
\* none of its timers is armed.
TeardownReleasesFetch ==
    phase = "unmounted" =>
        (pending = {} /\ abortTimers = {} /\ loadingTimers = {})

-----------------------------------------------------------------------------
(* Claims about the path and the end of searchInTree *)

\* The nodes whose step description the running call has pushed, in the
\* order of the visit: the ancestors of currentNode, and currentNode itself
\* once the call has ended.
Visited ==
    LET n == IF loop.pc = "while" THEN Len(loop.currentNode)
             ELSE Len(loop.currentNode) + 1
    IN  [i \in 1..n |-> NodeAt(tree, SubSeq(loop.currentNode, 1, i - 1))]

\* C14: on every tree, malformed ones included, the search ends: it is
\* always at a node of the tree and has visited no more nodes than the
\* tree has; when the chosen child of an internal node is absent it
\* returns found = false, matchedNode = null and the path of the nodes
\* visited up to and including that internal node.
SearchDegradesOnMalformedTree ==
    /\ loop.pc \in {"while", "return"}
    /\ loop.currentNode \in NodeRefs(tree)
    /\ Len(loop.path) <= Cardinality(NodeRefs(tree))
    /\ (loop.pc = "return" /\ ~IsLeaf(NodeAt(tree, loop.currentNode))) =>
          /\ loop.result.found = FALSE
          /\ loop.result.node = Null
          /\ Len(loop.result.path) = Len(Visited)
          /\ \A i \in 1..Len(Visited) :
                loop.result.path[i] = StepDescription(Visited[i])

\* A search on a three-level tree that stopped at an internal node below
\* the root whose chosen child is absent.
SearchStoppedAtMissingChild ==
    /\ loop.pc = "return"
    /\ Len(loop.currentNode) = 1
    /\ ~IsLeaf(NodeAt(tree, loop.currentNode))
    /\ Len(loop.result.path) = 2

\* The value of a string of decimal digits, -1 when it is not one.
RECURSIVE DecimalValue(_)
DecimalValue(chars) ==
    LET digits == {d \in 0..9 : Digit(d) = chars[Len(chars)]}
    IN  IF chars = <<>> \/ digits = {} THEN -1
        ELSE IF Len(chars) = 1 THEN CHOOSE d \in digits : TRUE
        ELSE LET high == DecimalValue(SubSeq(chars, 1, Len(chars) - 1))
             IN  IF high <= 0 THEN -1
                 ELSE 10 * high + (CHOOSE d \in digits : TRUE)

KindName ==
    [leaf |-> <<"l", "e", "a", "f">>,
     internal |-> <<"i", "n", "t", "e", "r", "n", "a", "l">>]

\* entry reads 'Level L: <kind> node' with the level and the kind of node.
Describes(entry, node) ==
    \E n \in 1..(Len(entry) - 6) :
        /\ entry = <<"L", "e", "v", "e", "l", " ">> \o SubSeq(entry, 7, 6 + n)
                     \o <<":", " ">> \o KindName[node.type]
                     \o <<" ", "n", "o", "d", "e">>
        /\ DecimalValue(SubSeq(entry, 7, 6 + n)) = node.level

\* C15: the path a search returns has exactly one entry per node visited,
\* from the root to the node the search ended at, each entry reading
\* 'Level L: <kind> node' with the level and kind of its node; the first
\* entry describes the root, and for a root that is a leaf the path is
\* exactly ['Level 0: leaf node'].
PathDescribesVisitedNodes ==
    loop.pc = "return" =>
        /\ Len(loop.result.path) = Len(Visited)
        /\ \A i \in 1..Len(Visited) :
              Describes(loop.result.path[i], Visited[i])
        /\ Visited[1] = tree
        /\ IsLeaf(tree) =>
              loop.result.path =
                 <<<<"L", "e", "v", "e", "l", " ", "0", ":", " ",
                     "l", "e", "a", "f", " ", "n", "o", "d", "e">>>>

\* A search that returned from the third node of its path, below an
\* internal node whose level has two digits.
SearchReturnedPathOfThree ==
    /\ loop.pc = "return"
    /\ Len(loop.result.path) = 3
    /\ \E i \in 1..3 : Visited[i].level >= 10

-----------------------------------------------------------------------------
(* Claims about convertToD3Format *)

\* The layout has been built for the tree and the result of the call: a
\* layout built without a search result has no searchFound, and a new call
\* discards the layout.
Rendered == layout # Null /\ "searchFound" \in DOMAIN layout

\* The nodeId of the node object at ref, as the claim words it: 'root'
\* followed by the child indices on the way from the root.
RECURSIVE IdentityOf(_)
IdentityOf(ref) ==
    IF ref = <<>> THEN <<"r", "o", "o", "t">>
    ELSE IdentityOf(SubSeq(ref, 1, Len(ref) - 1))
            \o <<"-", Digit(ref[Len(ref)])>>

\* C16: the layout has the shape of the snapshot, the identity of each of
\* its nodes is 'root' followed by the child indices on the node's path
\* from the root, and distinct nodes have distinct identities.
LayoutIdentitiesFollowPaths ==
    layout # Null =>
        /\ NodeRefs(layout) = NodeRefs(tree)
        /\ \A r \in NodeRefs(tree) :
              /\ NodeAt(layout, r).nodeId = IdentityOf(r)
              /\ NodeAt(layout, r).level = NodeAt(tree, r).level
              /\ NodeAt(layout, r).nodeType = NodeAt(tree, r).type
        /\ Cardinality({NodeAt(layout, r).nodeId : r \in NodeRefs(tree)})
              = Cardinality(NodeRefs(tree))

\* The layout of a tree with three levels has been built.
RenderedThreeLevels ==
    /\ layout # Null
    /\ \E r \in NodeRefs(layout) : Len(r) = 2

\* C17: a node of the layout has isSearchResult = true exactly when its
\* TreeNode is the node the search result refers to; without a search
\* result, or with a matchedNode of null, no node is marked.
OnlyMatchedNodeIsSearchResult ==
    layout # Null =>
        LET marked == {r \in NodeRefs(layout) : NodeAt(layout, r).isSearchResult}
        IN  marked = IF Rendered /\ loop.result.node # Null
                     THEN {loop.result.node.ref}
                     ELSE {}

\* The layout has been built for a search that found its key in a leaf
\* that has siblings.
RenderedFoundAmongSiblings ==
    /\ Rendered
    /\ loop.result.found
    /\ Len(loop.result.node.ref) = 2
    /\ Cardinality(NodeRefs(layout)) >= 5

\* C18: a node of the layout has isInSearchPath = true exactly when its own
\* step description 'Level <level>: <kind> node' is an element of the path
\* of the search result.
InSearchPathIffDescribed ==
    Rendered =>
        \A r \in NodeRefs(layout) :
            NodeAt(layout, r).isInSearchPath
               <=> Includes(loop.result.path,
                            StepDescription(NodeAt(tree, r)))

-----------------------------------------------------------------------------
(* Claims about calculateTreeStats *)

\* The sum of len(keys) over the nodes at the references refs.
RECURSIVE SumOfKeys(_, _)
SumOfKeys(root, refs) ==
    IF refs = {} THEN 0
    ELSE LET r == CHOOSE x \in refs : TRUE
         IN  Len(NodeAt(root, r).keys) + SumOfKeys(root, refs \ {r})

\* C20: for every snapshot tree the statistics give totalNodes = the
\* number of nodes, leafNodes = the number of leaf nodes, totalKeys = the
\* sum of len(keys) over all nodes and a balance label fixed by totalNodes
\* alone (up to 1 Perfect, up to 3 Good, up to 5 Fair, above Complex); a
\* single root leaf with 3 keys gives 1, 1, 3 and Perfect.
StatsCountTheTree ==
    treeStats # Null =>
        LET refs == NodeRefs(tree)
        IN  /\ treeStats.totalNodes = Cardinality(refs)
            /\ treeStats.leafNodes =
                  Cardinality({r \in refs : NodeAt(tree, r).is_leaf})
            /\ treeStats.totalKeys = SumOfKeys(tree, refs)
            /\ treeStats.treeBalance =
                  IF treeStats.totalNodes \in 0..1 THEN "Perfect"
                  ELSE IF treeStats.totalNodes \in 2..3 THEN "Good"
                  ELSE IF treeStats.totalNodes \in 4..5 THEN "Fair"
                  ELSE "Complex"
            /\ (IsLeaf(tree) /\ Len(tree.keys) = 3) =>
                  /\ treeStats.totalNodes = 1
                  /\ treeStats.leafNodes = 1
                  /\ treeStats.totalKeys = 3
                  /\ treeStats.treeBalance = "Perfect"

\* The statistics of a tree of five nodes, three of them leaves, have been
\* computed.
StatsOfFiveNodeTree ==
    /\ treeStats # Null
    /\ Cardinality(NodeRefs(tree)) = 5
    /\ treeStats.leafNodes = 3

-----------------------------------------------------------------------------
(* handleSearch, handleReset and the controls of the search panel *)

MaxQueries == 2   \* POST /api/query requests in flight at one time
HistoryKept == 4  \* prev.slice(0, 4)

\* The code unit of a blank; it sorts before the code units of keys.
Space == 0

IsWhitespace(u) == u = Space

\* String.prototype.trim
RECURSIVE TrimStart(_)
TrimStart(s) ==
    IF s # <<>> /\ IsWhitespace(Head(s)) THEN TrimStart(Tail(s)) ELSE s

Trim(s) == Reverse(TrimStart(Reverse(TrimStart(s))))

\* Texts typed into the search input: " ", "1", " 3 ".
SearchInputs == {<<Space>>, <<1>>, <<Space, 3, Space>>}

\* A 2xx answer of GET /api/tree for an empty database: root is null.
EmptyTreeBody ==
    [success |-> TRUE, message |-> "ok", root |-> Null, depth |-> 0,
     node_count |-> 0]

PanelBodies == {SnapshotA, SnapshotB, EmptyTreeBody}

\* Bodies of a 2xx answer of POST /api/query; the handler answers every
\* failure with a status that makes axios.post reject.
QueryRows ==
    [success |-> TRUE, message |-> "Query executed successfully",
     data |-> <<[key |-> <<1>>, value |-> <<1>>]>>, rows_affected |-> 1]

QueryNoRows ==
    [success |-> TRUE, message |-> "Query executed successfully",
     data |-> <<>>, rows_affected |-> 0]

QueryBodies == {QueryRows, QueryNoRows}

\* The state setters of the fetcher, the clock and the requests of the
\* fetcher: everything of the fetcher but the history.
fetchState ==
    <<phase, clock, stateVars, pending, abortTimers, loadingTimers, sent,
      lastUnforcedSend>>

\* The tree panel, with the search controls, is what the component shows.
PanelShown == Mounted /\ View = "tree"

\* `treeData?.root` is truthy.
HasRoot(td) == td # Null /\ "root" \in DOMAIN td /\ td.root # Null

\* Bug variant: the key is tested without trim().
SearchSkippedUntrimmed(text, td) == text = <<>> \/ ~HasRoot(td)

\* `!searchKey.trim() || !treeData?.root`
SearchSkipped(text, td) == Trim(text) = <<>> \/ ~HasRoot(td)

\* Bug variant: the history is never cut.
HistoryAfterKeepsAll(prev, result) == <<result>> \o prev

\* `[result, ...prev.slice(0, 4)]`
HistoryAfter(prev, result) ==
    <<result>> \o SubSeq(prev, 1, IF Len(prev) < HistoryKept THEN Len(prev)
                                  ELSE HistoryKept)

\* Bug variant: found follows the answer of the server.
ResultAfterResponseFollowsServer(prev, body) ==
    IF prev = Null THEN Null
    ELSE [prev EXCEPT !.found = body.success /\ Len(body.data) > 0]

\* searchResult after `if (response.data.success && response.data.data
\* .length > 0) setSearchResult(prev => prev ? {...prev, found: true} :
\* null)`, prev being the searchResult current when the answer arrives.
ResultAfterResponse(prev, body) ==
    IF body.success /\ Len(body.data) > 0
    THEN IF prev # Null THEN [prev EXCEPT !.found = TRUE] ELSE Null
    ELSE prev

\* onChange of the search input: setSearchKey(e.target.value).
SetSearchKey(text) ==
    /\ PanelShown
    /\ searchKey' = text
    /\ lastEvent' = [op |-> "setSearchKey"]
    /\ UNCHANGED <<searchResult, isSearching, searchHistory, queries,
                   zoomLevel, zoomTransform, fetchState, searchVars,
                   renderVars, apiVars>>

\* handleSearch up to `await axios.post(...)`, called by the Search button
\* or by Enter in the search input; setSearchResult(null) is overwritten by
\* setSearchResult(result) in the same batch.
HandleSearch ==
    /\ PanelShown
    /\ SearchSkipped(searchKey, treeData) \/ Cardinality(queries) < MaxQueries
    /\ IF SearchSkipped(searchKey, treeData)
       THEN /\ lastEvent' = [op |-> "handleSearch", skipped |-> TRUE]
            /\ UNCHANGED <<searchResult, isSearching, searchHistory, queries>>
       ELSE LET result == searchInTree(treeData.root, Trim(searchKey))
                id     == CHOOSE i \in 1..MaxQueries :
                              /\ \A q \in queries : q.id # i
                              /\ \A j \in 1..(i - 1) :
                                    \E q \in queries : q.id = j
            IN  /\ isSearching' = TRUE
                /\ searchResult' = result
                /\ searchHistory' = HistoryAfter(searchHistory, result)
                /\ queries' = queries \cup {[id |-> id,
                                             key |-> Trim(searchKey),
                                             result |-> result]}
                /\ lastEvent' = [op |-> "handleSearch", skipped |-> FALSE,
                                 full |-> Len(searchHistory) > HistoryKept]
    /\ UNCHANGED <<searchKey, zoomLevel, zoomTransform, fetchState,
                   searchVars, renderVars, apiVars>>

\* axios.post resolves with a 2xx answer: the rest of the try block and
\* the finally block of call q.
QueryResolves(q, body) ==
    /\ q \in queries
    /\ queries' = queries \ {q}
    /\ searchResult' =
          IF Mounted THEN ResultAfterResponse(searchResult, body)
          ELSE searchResult
    /\ isSearching' = IF Mounted THEN FALSE ELSE isSearching
    /\ lastEvent' = [op |-> "query resolves", body |-> body, call |-> q]
    /\ UNCHANGED <<searchKey, searchHistory, zoomLevel, zoomTransform,
                   fetchState, searchVars, renderVars, apiVars>>

\* axios.post rejects: the catch block logs the error, then the finally
\* block of call q.
QueryRejects(q) ==
    /\ q \in queries
    /\ queries' = queries \ {q}
    /\ isSearching' = IF Mounted THEN FALSE ELSE isSearching
    /\ lastEvent' = [op |-> "query rejects"]
    /\ UNCHANGED <<searchKey, searchResult, searchHistory, zoomLevel,
                   zoomTransform, fetchState, searchVars, renderVars, apiVars>>

\* handleReset; highlightMode, which it also sets, is read nowhere.
HandleReset ==
    /\ PanelShown
    /\ searchKey' = <<>>
    /\ searchResult' = Null
    /\ searchHistory' = <<>>
    /\ zoomLevel' = IdentityScale
    /\ zoomTransform' = IdentityScale
    /\ lastEvent' = [op |-> "handleReset"]
    /\ UNCHANGED <<isSearching, queries, fetchState, searchVars,
                   renderVars, apiVars>>

\* A button of "Recent Searches": setSearchKey(searchKey) and
\* setSearchResult(result) for entry i of the history.
ClickRecentSearch(i) ==
    /\ PanelShown
    /\ i \in 1..Len(searchHistory)
    /\ searchResult' = searchHistory[i]
    /\ lastEvent' = [op |-> "recent search"]
    /\ UNCHANGED <<searchKey, isSearching, searchHistory, queries, zoomLevel,
                   zoomTransform, fetchState, searchVars, renderVars, apiVars>>

-----------------------------------------------------------------------------
(* Zoom *)

\* What a zoom gesture asks for (a wheel notch, a pinch, a double click),
\* as the new scale in percent of the scale before it.
GestureFactors == {50, 87, 115, 200}

\* Bug variant: scales above the extent are let through.
ClampScaleNoUpperBound(k) == IF k < MinScale THEN MinScale ELSE k

\* d3.zoom().scaleExtent([0.3, 3]): the scale a gesture asks for is
\* brought into the extent.
ClampScale(k) ==
    IF k < MinScale THEN MinScale ELSE IF k > MaxScale THEN MaxScale ELSE k

\* A zoom gesture on the svg, handled by the zoom behaviour the render
\* effect attached: it starts from the transform kept on the element and
\* its "zoom" event calls setZoomLevel(event.transform.k).
ZoomGesture(f) ==
    /\ PanelShown
    /\ HasRoot(treeData)
    /\ zoomTransform' = ClampScale((zoomTransform * f) \div 100)
    /\ zoomLevel' = zoomTransform'
    /\ lastEvent' = [op |-> "zoom gesture",
                     asked |-> (zoomTransform * f) \div 100]
    /\ UNCHANGED <<searchKey, searchResult, isSearching, searchHistory,
                   queries, fetchState, searchVars, renderVars, apiVars>>

\* "Zoom In" and "Zoom Out": svg.call(d3.zoom().transform,
\* d3.zoomIdentity.scale(k)) sets the transform kept on the element; the
\* new d3.zoom() has no "zoom" listener, so setZoomLevel is not called.
ClickZoom(k) ==
    /\ PanelShown
    /\ zoomTransform' = k
    /\ lastEvent' = [op |-> "zoom button", scale |-> k]
    /\ UNCHANGED <<searchKey, searchResult, isSearching, searchHistory,
                   queries, zoomLevel, fetchState, searchVars,
                   renderVars, apiVars>>

ZoomNext ==
    \/ Mount
    \/ \E c \in pending, body \in PanelBodies : Resolve(c, body)
    \/ \E f \in GestureFactors : ZoomGesture(f)
    \/ ClickZoom(ZoomInScale)
    \/ ClickZoom(ZoomOutScale)
    \/ HandleReset

\* The zoom controls on the snapshot of the first fetch.
ZoomSpec == FetchInit /\ [][ZoomNext]_vars

PanelNext ==
    \/ Mount
    \/ \E c \in pending, body \in PanelBodies : Resolve(c, body)
    \/ \E text \in SearchInputs : SetSearchKey(text)
    \/ HandleSearch
    \/ \E q \in queries, body \in QueryBodies : QueryResolves(q, body)
    \/ \E q \in queries : QueryRejects(q)
    \/ HandleReset
    \/ \E i \in 1..(HistoryKept + 1) : ClickRecentSearch(i)

\* The search panel on the snapshot of the first fetch.
PanelSpec == FetchInit /\ [][PanelNext]_vars

RefetchNext ==
    \/ Mount
    \/ ClickRefresh
    \/ \E c \in pending, body \in PanelBodies : Resolve(c, body)
    \/ \E text \in SearchInputs : SetSearchKey(text)
    \/ HandleSearch

\* Searches and refreshes of the snapshot, while the answers of
\* POST /api/query are outstanding.
RefetchSpec == FetchInit /\ [][RefetchNext]_vars

-----------------------------------------------------------------------------
(* ViewSpec: the tree panel of a fetched snapshot under every control that  *)
(* reads the snapshot or changes the view; tree is the root of the snapshot *)
(* the backend answers with                                                 *)

ViewTrees == {body.root : body \in {SnapshotA, SnapshotB}}

ViewInit ==
    /\ Constructed
    /\ ConstructedView
    /\ tree \in ViewTrees
    /\ key = <<>>
    /\ loop = SearchEntry

ViewNext ==
    \/ Mount
    \/ \E c \in pending, body \in PanelBodies :
          body.root = tree /\ Resolve(c, body)
    \/ PanelShown /\ Render
    \/ PanelShown /\ \E k \in SearchKeys : SearchRun(k)
    \/ PanelShown /\ ToggleShowValues
    \/ \E f \in GestureFactors : ZoomGesture(f)
    \/ ClickZoom(ZoomInScale)
    \/ ClickZoom(ZoomOutScale)
    \/ HandleReset

ViewSpec == ViewInit /\ [][ViewNext]_vars

-----------------------------------------------------------------------------
(* GET /api/stats: the handler of src/unnamed/part_000 *)

MaxApiRequests == 3  \* requests the handler receives in one run

DefaultStats == [size |-> 0, height |-> 0, node_count |-> 0, total_records |-> 0]

\* response.data of a 2xx answer of the backend's GET /stats: complete,
\* without data, with success = false and no message, with nothing.
BackendStats ==
    {[success |-> TRUE, message |-> "ok",
      data |-> [size |-> 3, height |-> 2, node_count |-> 3,
                total_records |-> 3]],
     [success |-> TRUE, message |-> "empty"],
     [success |-> FALSE, data |-> DefaultStats],
     [x \in {} |-> x]}

\* What axios.get rejects with: connection refused (the backend is not
\* running), the request's timeout, an unknown host, a 5xx answer.
BackendErrors ==
    {ConnectionRefused, TimeoutExceeded,
     [name |-> "AxiosError", code |-> "ENOTFOUND",
      message |-> "getaddrinfo ENOTFOUND"],
     [name |-> "AxiosError", code |-> "ERR_BAD_RESPONSE",
      message |-> "Request failed with status code 500"]}

\* `result.f || fallback` for a field f that may be missing.
OrElse(result, f, fallback) ==
    IF f \in DOMAIN result THEN result[f] ELSE fallback

\* res.status(200).json({...}) of the try block; `result.success || true`
\* is true whatever result.success is.
AnswerOfResult(result) ==
    [status |-> 200,
     body |-> [success |-> TRUE,
               message |-> OrElse(result, "message",
                                  "Statistics retrieved successfully"),
               data |-> OrElse(result, "data", DefaultStats)]]

\* The answer of the catch block for rejection e.
AnswerOfError(e) ==
    IF e.code = "ECONNREFUSED"
    THEN [status |-> 503,
          body |-> [success |-> FALSE,
                    message |-> "Backend server is not running. "
                                \o "Please start the C++ backend server.",
                    data |-> Null]]
    ELSE [status |-> 200,
          body |-> [success |-> FALSE,
                    message |->
                       "Using default statistics (backend not available)",
                    data |-> DefaultStats]]

MethodNotAllowed ==
    [status |-> 405,
     body |-> [success |-> FALSE, message |-> "Method not allowed",
               data |-> Null]]

\* The handler is called with a request of the given method and runs up
\* to its answer (405) or to `await axios.get(apiUrl, ...)`.
StatsHandler(method) ==
    /\ apiCall = Null
    /\ Len(apiAnswers) < MaxApiRequests
    /\ IF method # "GET"
       THEN /\ apiAnswers' = Append(apiAnswers, MethodNotAllowed)
            /\ UNCHANGED apiCall
       ELSE /\ apiCall' = [method |-> method]
            /\ UNCHANGED apiAnswers
    /\ lastEvent' = [op |-> "stats request", method |-> method]
    /\ UNCHANGED <<searchVars, fetchState, renderVars, uiVars>>

\* axios.get resolves with a 2xx answer of the backend.
StatsBackendAnswers(result) ==
    /\ apiCall # Null
    /\ apiCall' = Null
    /\ apiAnswers' = Append(apiAnswers, AnswerOfResult(result))
    /\ lastEvent' = [op |-> "stats backend answers", result |-> result]
    /\ UNCHANGED <<searchVars, fetchState, renderVars, uiVars>>

\* axios.get rejects.
StatsBackendFails(e) ==
    /\ apiCall # Null
    /\ apiCall' = Null
    /\ apiAnswers' = Append(apiAnswers, AnswerOfError(e))
    /\ lastEvent' = [op |-> "stats backend fails", rejection |-> e]
    /\ UNCHANGED <<searchVars, fetchState, renderVars, uiVars>>

ApiNext ==
    \/ \E method \in {"GET", "POST"} : StatsHandler(method)
    \/ \E result \in BackendStats : StatsBackendAnswers(result)
    \/ \E e \in BackendErrors : StatsBackendFails(e)

ApiSpec == FetchInit /\ [][ApiNext]_vars

-----------------------------------------------------------------------------
(* Claims about the search panel *)

\* C11: the search history never holds more than 5 results and is ordered
\* most recent first: a search puts its result at the head, keeps the
\* results before it in their order and drops the oldest when there were
\* already 5; reset empties the history; no other step changes it.
HistoryKeepsFiveMostRecent ==
    [][/\ Len(searchHistory') <= 5
       /\ IF lastEvent'.op = "handleSearch" /\ ~lastEvent'.skipped
          THEN /\ searchHistory'[1] = searchResult'
               /\ Len(searchHistory') =
                     IF Len(searchHistory) < 5 THEN Len(searchHistory) + 1
                     ELSE 5
               /\ \A i \in 2..Len(searchHistory') :
                     searchHistory'[i] = searchHistory[i - 1]
          ELSE IF lastEvent'.op = "handleReset"
          THEN searchHistory' = <<>>
          ELSE searchHistory' = searchHistory
      ]_vars

\* A search on a full history has dropped the oldest result.
SearchedOnFullHistory ==
    /\ lastEvent.op = "handleSearch"
    /\ ~lastEvent.skipped
    /\ lastEvent.full
    /\ Len(searchHistory) = 5

\* C12: the answer of POST /api/query changes the current search result
\* only by turning found from false to true, and only when it has rows: it
\* never turns found to false, never changes path or node, and a failed
\* call or an answer without rows leaves the search result as it was.
AdvisoryOnlyUpgrades ==
    [][lastEvent'.op \in {"query resolves", "query rejects"} =>
          /\ \/ searchResult' = searchResult
             \/ /\ searchResult # Null
                /\ ~searchResult.found
                /\ searchResult' = [searchResult EXCEPT !.found = TRUE]
                /\ lastEvent'.op = "query resolves"
                /\ Len(lastEvent'.body.data) > 0
          /\ (lastEvent'.op = "query rejects"
                \/ Len(lastEvent'.body.data) = 0) =>
                searchResult' = searchResult
      ]_vars

\* An answer with rows has turned a local "not found" into "found".
AdvisoryUpgradedResult ==
    /\ lastEvent.op = "query resolves"
    /\ Len(lastEvent.body.data) > 0
    /\ searchResult # Null
    /\ searchResult.found
    /\ searchResult.node = Null

\* Every code unit of text is a blank (the empty text included).
Blank(text) == \A i \in 1..Len(text) : text[i] = Space

\* C13: handleSearch with no snapshot, with a snapshot without root, or
\* with an empty or all-blank key does nothing: no request is issued, no
\* error is set, and the search result, the search history and the
\* searching flag stay as they were.
SearchWithoutInputIsNoOp ==
    [][(lastEvent'.op = "handleSearch"
          /\ (treeData = Null \/ treeData.root = Null \/ Blank(searchKey))) =>
          /\ queries' = queries
          /\ sent' = sent
          /\ error' = error
          /\ searchResult' = searchResult
          /\ searchHistory' = searchHistory
          /\ isSearching' = isSearching
      ]_vars

\* handleSearch did nothing on an all-blank key while an earlier search
\* was waiting for its answer.
SkippedBlankKeyWhileSearching ==
    /\ lastEvent.op = "handleSearch"
    /\ lastEvent.skipped
    /\ searchKey = <<Space>>
    /\ isSearching
    /\ searchResult # Null
    /\ searchHistory # <<>>

-----------------------------------------------------------------------------
(* Claims about zoom *)

\* C19: after any sequence of zoom gestures, Zoom In, Zoom Out and reset,
\* the zoom scale (the scale the component holds and the scale of the
\* transform on the svg, in hundredths) is within [0.3, 3.0].
ZoomScaleWithinExtent ==
    /\ zoomLevel \in 30..300
    /\ zoomTransform \in 30..300

\* A gesture has asked for a scale above 3.0 and was held at 3.0.
GestureClampedAtMaximum ==
    /\ lastEvent.op = "zoom gesture"
    /\ lastEvent.asked > 300
    /\ zoomLevel = 300

-----------------------------------------------------------------------------
(* Claims about the tree panel of a fetched snapshot *)

\* C21: no operation other than the replacement done by a successful fetch
\* changes the tree of the current snapshot: the search, the statistics,
\* the layout conversion, the sorted-key traversal, zoom gestures and
\* buttons, the "Show Values" checkbox and reset leave every node of the
\* tree (its keys, values, children and level) as it was.
SnapshotTreeNeverMutated ==
    [][/\ tree' = tree
       /\ lastEvent'.op = "resolve" \/ treeData' = treeData
      ]_vars

\* The panel of a snapshot with an internal root has been rendered after a
\* search, with the values switched on and the view zoomed.
RenderedSearchedZoomedInternalRoot ==
    /\ Rendered
    /\ ~IsLeaf(tree)
    /\ treeData # Null
    /\ treeData.root = tree
    /\ showValues
    /\ zoomLevel # IdentityScale

\* C22: whenever showValues is set, the render gives every leaf that has
\* values one value text per value, whatever the shape of the snapshot;
\* when showValues is not set, it gives no node a value text.
ShowValuesRendersLeafValues ==
    valueTexts # Null =>
        \A r \in NodeRefs(tree) :
            LET node == NodeAt(tree, r)
            IN  IF showValues /\ IsLeaf(node) /\ "values" \in DOMAIN node
                THEN /\ Len(valueTexts[r]) = Len(node.values)
                     /\ \A i \in 1..Len(node.values) :
                           valueTexts[r][i] = ValueText(node.values[i])
                ELSE showValues \/ valueTexts[r] = <<>>

-----------------------------------------------------------------------------
(* Claims about GET /api/stats *)

\* C23: when the connection to the backend is refused, the handler answers
\* with an error message together with the default statistics (size,
\* height, node_count and total_records all 0), not with null data.
RefusedConnectionGetsDefaultStats ==
    (lastEvent.op = "stats backend fails"
        /\ lastEvent.rejection.code = "ECONNREFUSED") =>
        LET answer == apiAnswers[Len(apiAnswers)]
        IN  /\ ~answer.body.success
            /\ answer.body.data # Null
            /\ answer.body.data =
                  [size |-> 0, height |-> 0, node_count |-> 0,
                   total_records |-> 0]

-----------------------------------------------------------------------------
(* Claims about the interval checks and concurrent fetches *)

\* C24: the 30-second check of fetchTreeData is dead: no unforced call is
\* skipped by it, and an unforced call made 10 seconds or more after the
\* last successful fetch, while nothing is loading, issues a request.
UnforcedCallAfterTenSecondsSends ==
    (lastEvent.op = "fetchTreeData" /\ ~lastEvent.force) =>
        /\ lastEvent.skipped # "debounce"
        /\ (lastEvent.at - lastFetchTime >= 10000 /\ ~isLoading) =>
              lastEvent.issued

\* C28: when two fetches are in flight at the same time, the snapshot
\* held after both have completed is the one returned for the request
\* issued later, whatever the order of the answers: the answer of a request
\* issued before the request whose snapshot is held (lastFetchTime is the
\* time that request was issued) does not replace the snapshot.
LaterIssuedRequestWins ==
    [][(lastEvent'.op = "resolve" /\ lastEvent'.call.now < lastFetchTime) =>
          /\ treeData' = treeData
          /\ lastFetchTime' = lastFetchTime
      ]_vars

\* C30: the loading flag is true while any fetch request is in flight.
LoadingWhileRequestInFlight == pending # {} => isLoading

-----------------------------------------------------------------------------
(* Claims about the marks of unvisited nodes *)

\* C25: in the layout built from a search result only the nodes the search
\* visited (the root, the node the search ended at and the nodes between
\* them) have isInSearchPath = true; a node at the level of a visited node
\* that is not on the descent is not marked.
OnlyVisitedNodesInSearchPath ==
    Rendered =>
        \A r \in NodeRefs(layout) :
            NodeAt(layout, r).isInSearchPath =>
                /\ Len(r) <= Len(loop.currentNode)
                /\ r = SubSeq(loop.currentNode, 1, Len(r))

-----------------------------------------------------------------------------
(* Claims about the search result and the advisory answer *)

\* C26: in every reachable state a current search result with found = true
\* has a matched node that is not null, also after the answer of
\* POST /api/query has been applied.
FoundResultHasMatchedNode ==
    (searchResult # Null /\ searchResult.found) => searchResult.node # Null

\* C29: the answer of POST /api/query for key K upgrades only the search
\* result that was computed for K: when the answer of a call changes the
\* current search result, that result is the one the call computed, not
\* the result of a later search, of a history entry or of a reset.
AdvisoryUpgradesOwnResult ==
    [][(lastEvent'.op = "query resolves" /\ searchResult' # searchResult) =>
          searchResult = lastEvent'.call.result
      ]_vars

\* C27: in every reachable state a matched node of the current search
\* result that is not null is a node of the current snapshot: no result
\* computed on a snapshot that a successful fetch has replaced stays
\* current with a matched node that the new snapshot does not have.
MatchedNodeInCurrentSnapshot ==
    (searchResult # Null /\ searchResult.node # Null) =>
        /\ HasRoot(treeData)
        /\ searchResult.node.ref \in NodeRefs(treeData.root)
=============================================================================
